---- MODULE Spec2Model ----
(***************************************************************************)
(* Model of vast::util::range_map<Point, Value>                            *)
(* (src/vast/util/range_map.hpp): a std::map keyed by the left endpoint of *)
(* a right-open interval, holding (right endpoint, value).                 *)
(*                                                                         *)
(* The container is single-threaded; every public member function is one   *)
(* atomic action, taken by the caller when it is idle.  The variables op,  *)
(* argL, argR, argV, ret, pre and trace are what the caller holds after a  *)
(* call: the member function called, its arguments, its return value, the  *)
(* map before the call and the passes of the range-erase scan.  Discard is *)
(* the caller letting go of them before its next call.                     *)
(***************************************************************************)
EXTENDS Integers, FiniteSets, Sequences

VARIABLES map_, op, argL, argR, argV, ret, pre, trace

vars == <<map_, op, argL, argR, argV, ret, pre, trace>>

(* ---- bounds of the model ---- *)
MaxPoint == 4

Points == 0 .. MaxPoint
Values == {"A", "B"}

(* ---- std::map<Point, std::pair<Point, Value>> ---- *)

\* an empty std::map
EmptyMap == [k \in {} |-> [right |-> 0, value |-> "A"]]

\* the past-the-end iterator; every other iterator is the key of its entry
end == -1

MinOf(S) == CHOOSE x \in S : \A y \in S : x <= y
MaxOf(S) == CHOOSE x \in S : \A y \in S : y <= x

begin(m) == IF DOMAIN m = {} THEN end ELSE MinOf(DOMAIN m)

lower_bound(m, p) ==
  IF \E k \in DOMAIN m : k >= p
  THEN MinOf({k \in DOMAIN m : k >= p})
  ELSE end

\* --it (only used where it != begin)
prev(m, it) ==
  IF it = end THEN MaxOf(DOMAIN m) ELSE MaxOf({k \in DOMAIN m : k < it})

\* ++it (only used where it != end)
next(m, it) ==
  IF \E k \in DOMAIN m : k > it
  THEN MinOf({k \in DOMAIN m : k > it})
  ELSE end

left(it) == it
right(m, it) == m[it].right
value(m, it) == m[it].value

\* assignment through the non-const right(i) accessor
set_right(m, it, r) == [m EXCEPT ![it].right = r]

\* map_.erase(iterator)
map_erase(m, it) == [k \in DOMAIN m \ {it} |-> m[k]]

\* map_.emplace(l, make_pair(r, v)): no effect when the key exists
map_emplace(m, l, r, v) ==
  IF l \in DOMAIN m
  THEN [map |-> m, second |-> FALSE]
  ELSE [map |-> [k \in DOMAIN m \cup {l} |->
                   IF k = l THEN [right |-> r, value |-> v] ELSE m[k]],
        second |-> TRUE]

emplace(m, l, r, v) == map_emplace(m, l, r, v)

\* variant of locate that takes the stored intervals as closed
locate_closed(m, p, lb) ==
  IF lb # end /\ p = left(lb) THEN lb
  ELSE IF lb # begin(m) /\ p <= right(m, prev(m, lb)) THEN prev(m, lb)
  ELSE end

locate(m, p, lb) ==
  IF lb # end /\ p = left(lb) THEN lb
  ELSE IF lb # begin(m) /\ p < right(m, prev(m, lb)) THEN prev(m, lb)
  ELSE end

(* ---- public member functions, as functions of the map ---- *)

\* variant of insert that does not compare r with the entry at lb
insert_ignoring_lb(m, l, r, v) ==
  IF r <= l THEN [map |-> m, ret |-> FALSE]
  ELSE LET lb == lower_bound(m, l) IN
    IF locate(m, l, lb) = end
    THEN LET e == map_emplace(m, l, r, v) IN [map |-> e.map, ret |-> e.second]
    ELSE [map |-> m, ret |-> FALSE]

\* variant of insert that extends an equal-valued entry ending at l
insert_merging(m, l, r, v) ==
  IF r <= l THEN [map |-> m, ret |-> FALSE]
  ELSE LET lb == lower_bound(m, l) IN
    IF locate(m, l, lb) = end /\ (lb = end \/ r <= left(lb))
    THEN IF lb # begin(m) /\ right(m, prev(m, lb)) = l
                          /\ value(m, prev(m, lb)) = v
         THEN [map |-> set_right(m, prev(m, lb), r), ret |-> TRUE]
         ELSE LET e == map_emplace(m, l, r, v)
              IN [map |-> e.map, ret |-> e.second]
    ELSE [map |-> m, ret |-> FALSE]

insert(m, l, r, v) ==
  IF r <= l THEN [map |-> m, ret |-> FALSE]
  ELSE LET lb == lower_bound(m, l) IN
    IF locate(m, l, lb) = end /\ (lb = end \/ r <= left(lb))
    THEN LET e == map_emplace(m, l, r, v) IN [map |-> e.map, ret |-> e.second]
    ELSE [map |-> m, ret |-> FALSE]

\* "Assess the fit": i is the entry at or before l (the first entry when
\* there is none), p and n the entries before and after it
fits_left(m, l, r, i, p) == r <= left(i) /\ (p = end \/ l >= right(m, p))

\* variant of fits_right that does not look at the entry after i
fits_right_ignoring_next(m, l, r, i, n) == l >= right(m, i)

fits_right(m, l, r, i, n) == l >= right(m, i) /\ (n = end \/ r <= left(n))

\* variant of inject that never merges with the entry i it fits right of
inject_without_left_merge(m, l, r, v) ==
  IF r <= l THEN [map |-> m, ret |-> FALSE]
  ELSE IF DOMAIN m = {}
  THEN LET e == emplace(m, l, r, v) IN [map |-> e.map, ret |-> e.second]
  ELSE
    LET i0 == lower_bound(m, l)
        i  == IF i0 = end \/ (i0 # begin(m) /\ l # left(i0))
              THEN prev(m, i0) ELSE i0
        n  == next(m, i)
        p  == IF i # begin(m) THEN prev(m, i) ELSE end
    IN
    IF fits_left(m, l, r, i, p) THEN
      LET right_merge == r = left(i) /\ v = value(m, i)
          left_merge  == p # end /\ l = right(m, p) /\ v = value(m, p)
      IN
      IF left_merge /\ right_merge
      THEN [map |-> map_erase(set_right(m, p, right(m, i)), i), ret |-> TRUE]
      ELSE IF left_merge
      THEN [map |-> set_right(m, p, r), ret |-> TRUE]
      ELSE IF right_merge
      THEN [map |-> map_erase(emplace(m, l, right(m, i), v).map, i),
            ret |-> TRUE]
      ELSE [map |-> emplace(m, l, r, v).map, ret |-> TRUE]
    ELSE IF fits_right(m, l, r, i, n) THEN
      LET right_merge == n # end /\ r = left(n) /\ v = value(m, n)
          left_merge  == FALSE
      IN
      IF left_merge /\ right_merge
      THEN [map |-> map_erase(set_right(m, i, right(m, n)), n), ret |-> TRUE]
      ELSE IF left_merge
      THEN [map |-> set_right(m, i, r), ret |-> TRUE]
      ELSE IF right_merge
      THEN [map |-> map_erase(emplace(m, l, right(m, n), v).map, n),
            ret |-> TRUE]
      ELSE [map |-> emplace(m, l, r, v).map, ret |-> TRUE]
    ELSE [map |-> m, ret |-> FALSE]

inject(m, l, r, v) ==
  IF r <= l THEN [map |-> m, ret |-> FALSE]
  ELSE IF DOMAIN m = {}
  THEN LET e == emplace(m, l, r, v) IN [map |-> e.map, ret |-> e.second]
  ELSE
    LET i0 == lower_bound(m, l)
        i  == IF i0 = end \/ (i0 # begin(m) /\ l # left(i0))
              THEN prev(m, i0) ELSE i0
        n  == next(m, i)
        p  == IF i # begin(m) THEN prev(m, i) ELSE end
    IN
    IF fits_left(m, l, r, i, p) THEN
      LET right_merge == r = left(i) /\ v = value(m, i)
          left_merge  == p # end /\ l = right(m, p) /\ v = value(m, p)
      IN
      IF left_merge /\ right_merge
      THEN [map |-> map_erase(set_right(m, p, right(m, i)), i), ret |-> TRUE]
      ELSE IF left_merge
      THEN [map |-> set_right(m, p, r), ret |-> TRUE]
      ELSE IF right_merge
      THEN [map |-> map_erase(emplace(m, l, right(m, i), v).map, i),
            ret |-> TRUE]
      ELSE [map |-> emplace(m, l, r, v).map, ret |-> TRUE]
    ELSE IF fits_right(m, l, r, i, n) THEN
      LET right_merge == n # end /\ r = left(n) /\ v = value(m, n)
          left_merge  == l = right(m, i) /\ v = value(m, i)
      IN
      IF left_merge /\ right_merge
      THEN [map |-> map_erase(set_right(m, i, right(m, n)), n), ret |-> TRUE]
      ELSE IF left_merge
      THEN [map |-> set_right(m, i, r), ret |-> TRUE]
      ELSE IF right_merge
      THEN [map |-> map_erase(emplace(m, l, right(m, n), v).map, n),
            ret |-> TRUE]
      ELSE [map |-> emplace(m, l, r, v).map, ret |-> TRUE]
    ELSE [map |-> m, ret |-> FALSE]

erase_point(m, p) ==
  LET i == locate(m, p, lower_bound(m, p)) IN
  IF i = end THEN [map |-> m, ret |-> FALSE]
  ELSE [map |-> map_erase(m, i), ret |-> TRUE]

\* variant of split that puts the right remainder back without merging
split_without_merge(m, it, l, r) ==
  LET orig_r == right(m, it)
      m1 == set_right(m, it, l)
  IN IF r < orig_r THEN emplace(m1, r, orig_r, value(m1, it)).map ELSE m1

\* the branch "[it) overlaps [l,r) in its entirety" of erase(Point l, Point r)
split(m, it, l, r) ==
  LET orig_r == right(m, it)
      m1 == set_right(m, it, l)
  IN inject(m1, r, orig_r, value(m1, it)).map

(* one pass of the for (;;) loop of erase(Point l, Point r) and, unless the
   pass breaks, the passes after it; tr collects one record per pass that
   reaches the case analysis, fuel caps the number of passes explored *)
RECURSIVE erase_loop(_, _, _, _, _, _)
erase_loop(m, l, r, next_left, tr, fuel) ==
  IF fuel = 0 THEN [map |-> m, trace |-> tr, terminated |-> FALSE]
  ELSE
  LET lb  == lower_bound(m, next_left)
      loc == locate(m, next_left, lb)
      it  == IF loc = end THEN lb ELSE loc
  IN
  IF it = end \/ left(it) >= r
  THEN [map |-> m, trace |-> tr, terminated |-> TRUE]
  ELSE
  LET nl == right(m, it)
      step(c, stop) == Append(tr, [it |-> it, from |-> next_left, to |-> nl,
                                   case |-> c, stop |-> stop])
  IN
  IF l <= left(it) /\ r >= right(m, it)
  THEN erase_loop(map_erase(m, it), l, r, nl, step(1, FALSE), fuel - 1)
  ELSE IF left(it) <= l /\ right(m, it) >= r
  THEN [map |-> split(m, it, l, r),
        trace |-> step(2, TRUE), terminated |-> TRUE]
  ELSE IF l <= left(it) /\ r > left(it)
  THEN [map |-> map_erase(
                  map_emplace(m, r, right(m, it), value(m, it)).map, it),
        trace |-> step(3, TRUE), terminated |-> TRUE]
  ELSE IF l < right(m, it) /\ r >= right(m, it)
  THEN erase_loop(set_right(m, it, l), l, r, nl, step(4, FALSE), fuel - 1)
  ELSE erase_loop(m, l, r, nl, step(0, FALSE), fuel - 1)

\* more passes than any scan over Points can make progress in
ScanFuel == 2 * MaxPoint + 4

\* variant of erase_range that scans without testing r <= l
erase_range_unguarded(m, l, r) == erase_loop(m, l, r, l, <<>>, ScanFuel)

erase_range(m, l, r) ==
  IF r <= l THEN [map |-> m, trace |-> <<>>, terminated |-> TRUE]
  ELSE erase_loop(m, l, r, l, <<>>, ScanFuel)

lookup(m, p) ==
  LET i == locate(m, p, lower_bound(m, p)) IN
  IF i # end THEN value(m, i) ELSE "nullptr"

find(m, p) ==
  LET i == locate(m, p, lower_bound(m, p)) IN
  IF i = end THEN <<0, 0, "nullptr">>
  ELSE <<left(i), right(m, i), value(m, i)>>

clear(m) == EmptyMap

(* ---- state machine ---- *)

Init ==
  /\ map_ = EmptyMap
  /\ op = "idle"
  /\ argL = 0
  /\ argR = 0
  /\ argV = "A"
  /\ ret = "void"
  /\ pre = EmptyMap
  /\ trace = <<>>

Insert ==
  /\ op = "idle"
  /\ \E l \in Points, r \in Points, v \in Values :
    /\ map_' = insert(map_, l, r, v).map
    /\ ret' = insert(map_, l, r, v).ret
    /\ op' = "insert"
    /\ argL' = l /\ argR' = r /\ argV' = v
    /\ pre' = map_
    /\ trace' = <<>>

Inject ==
  /\ op = "idle"
  /\ \E l \in Points, r \in Points, v \in Values :
    /\ map_' = inject(map_, l, r, v).map
    /\ ret' = inject(map_, l, r, v).ret
    /\ op' = "inject"
    /\ argL' = l /\ argR' = r /\ argV' = v
    /\ pre' = map_
    /\ trace' = <<>>

ErasePoint ==
  /\ op = "idle"
  /\ \E p \in Points :
    /\ map_' = erase_point(map_, p).map
    /\ ret' = erase_point(map_, p).ret
    /\ op' = "erase_point"
    /\ argL' = p /\ argR' = 0 /\ argV' = "A"
    /\ pre' = map_
    /\ trace' = <<>>

\* a call whose scan never ends does not return: it has no successor state
EraseRange ==
  /\ op = "idle"
  /\ \E l \in Points, r \in Points :
    /\ erase_range(map_, l, r).terminated
    /\ map_' = erase_range(map_, l, r).map
    /\ trace' = erase_range(map_, l, r).trace
    /\ ret' = "void"
    /\ op' = "erase_range"
    /\ argL' = l /\ argR' = r /\ argV' = "A"
    /\ pre' = map_

Clear ==
  /\ op = "idle"
  /\ map_' = clear(map_)
  /\ ret' = "void"
  /\ op' = "clear"
  /\ argL' = 0 /\ argR' = 0 /\ argV' = "A"
  /\ pre' = map_
  /\ trace' = <<>>

Lookup ==
  /\ op = "idle"
  /\ \E p \in Points :
    /\ ret' = lookup(map_, p)
    /\ op' = "lookup"
    /\ argL' = p /\ argR' = 0 /\ argV' = "A"
    /\ pre' = map_
    /\ trace' = <<>>
    /\ UNCHANGED map_

Find ==
  /\ op = "idle"
  /\ \E p \in Points :
    /\ ret' = find(map_, p)
    /\ op' = "find"
    /\ argL' = p /\ argR' = 0 /\ argV' = "A"
    /\ pre' = map_
    /\ trace' = <<>>
    /\ UNCHANGED map_

\* the caller drops the result of the last call and is ready for the next
Discard ==
  /\ op # "idle"
  /\ op' = "idle"
  /\ argL' = 0 /\ argR' = 0 /\ argV' = "A"
  /\ ret' = "void"
  /\ pre' = EmptyMap
  /\ trace' = <<>>
  /\ UNCHANGED map_

Next ==
  \/ Insert
  \/ Inject
  \/ ErasePoint
  \/ EraseRange
  \/ Clear
  \/ Lookup
  \/ Find
  \/ Discard

Spec == Init /\ [][Next]_vars

\* a caller that never calls insert
NextNoInsert ==
  \/ Inject
  \/ ErasePoint
  \/ EraseRange
  \/ Clear
  \/ Lookup
  \/ Find
  \/ Discard

SpecNoInsert == Init /\ [][NextNoInsert]_vars

(* ---- vocabulary of the properties ---- *)

\* the stored (left, right, value) entries
Entries(m) == {<<k, m[k].right, m[k].value>> : k \in DOMAIN m}

\* the points of [l, r) within the model's domain
Range(l, r) == {p \in Points : l <= p /\ p < r}

\* the stored entries [a, b) with a <= p < b
Containing(m, p) == {a \in DOMAIN m : a <= p /\ p < m[a].right}

Covered(m, p) == Containing(m, p) # {}

\* stored entry a has a point in common with [l, r)
Intersects(m, a, l, r) ==
  (IF a >= l THEN a ELSE l) < (IF m[a].right <= r THEN m[a].right ELSE r)

WellFormed(m) ==
  /\ \A a \in DOMAIN m : a < m[a].right
  /\ \A a \in DOMAIN m, b \in DOMAIN m : a < b => m[a].right <= b

(* ---- properties ---- *)

\* C1: in every reachable state every stored interval has left < right and
\* any two stored intervals A, B with A.left < B.left have A.right <= B.left
C1_Disjoint == WellFormed(map_)

\* C2: after erase(l, r) with l < r, lookup(p) is absent for every p in [l, r)
C2_EraseClears ==
  (op = "erase_range" /\ argL < argR) =>
    \A p \in Range(argL, argR) : lookup(map_, p) = "nullptr"

\* C3: erase(l, r) with l < r leaves lookup(p) as it was for every p outside
\* [l, r)
C3_EraseFrame ==
  (op = "erase_range" /\ argL < argR) =>
    \A p \in Points \ Range(argL, argR) : lookup(map_, p) = lookup(pre, p)

\* C4: a second erase(l, r) right after the first changes nothing
C4_EraseIdempotent ==
  op = "erase_range" => Entries(erase_range(map_, argL, argR).map) = Entries(map_)

\* C5: lookup(p) returns the value of the stored entry [a, b) with a <= p < b
\* and nullptr when there is none; find(p) returns (a, b, value) of the same
\* entry and (0, 0, nullptr) when there is none
C5_LookupFind ==
  /\ op = "lookup" =>
       IF Covered(pre, argL)
       THEN \E a \in Containing(pre, argL) : ret = pre[a].value
       ELSE ret = "nullptr"
  /\ op = "find" =>
       IF Covered(pre, argL)
       THEN \E a \in Containing(pre, argL) :
              ret = <<a, pre[a].right, pre[a].value>>
       ELSE ret = <<0, 0, "nullptr">>

\* C6: insert(l, r, v) over a map that covers some point of [l, r) returns
\* false and leaves the stored entries as they were
C6_InsertRejectsOverlap ==
  (op = "insert" /\ \E p \in Range(argL, argR) : Covered(pre, p)) =>
    (ret = FALSE /\ Entries(map_) = Entries(pre))

\* a rejected insert whose range starts in a gap and reaches into an entry
C6_Witness ==
  /\ op = "insert"
  /\ ret = FALSE
  /\ ~ Covered(pre, argL)
  /\ \E p \in Range(argL, argR) : Covered(pre, p)
  /\ Entries(map_) = Entries(pre)

\* C7: after a successful insert(l, r, v), lookup(p) = v for every p in
\* [l, r) and every point outside [l, r) that was uncovered is still uncovered
C7_InsertCorrect ==
  (op = "insert" /\ ret = TRUE) =>
    /\ \A p \in Range(argL, argR) : lookup(map_, p) = argV
    /\ \A p \in Points \ Range(argL, argR) :
         lookup(pre, p) = "nullptr" => lookup(map_, p) = "nullptr"

\* a successful insert between two stored entries, next to uncovered points
C7_Witness ==
  /\ op = "insert"
  /\ ret = TRUE
  /\ \E a \in DOMAIN pre : a < argL
  /\ \E a \in DOMAIN pre : a >= argR
  /\ \E p \in Points \ Range(argL, argR) : lookup(pre, p) = "nullptr"
  /\ \A p \in Range(argL, argR) : lookup(map_, p) = argV

\* C8: for l < r, insert(l, r, v) succeeds exactly when no stored interval
\* has a point in common with [l, r)
C8_InsertIffDisjoint ==
  (op = "insert" /\ argL < argR) =>
    (ret = TRUE <=> ~ \E a \in DOMAIN pre : Intersects(pre, a, argL, argR))

\* the entries of pre a successful inject(l, r, v) fuses with: the ones that
\* end at l, and the one that starts at r, carrying a value equal to v
LeftNeighbours(m, l, v) == {a \in DOMAIN m : m[a].right = l /\ m[a].value = v}
RightNeighbours(m, r, v) == {a \in DOMAIN m : a = r /\ m[a].value = v}

PairwiseDisjoint(m) ==
  \A a \in DOMAIN m, b \in DOMAIN m : a < b => m[a].right <= b

\* C9: over pairwise-disjoint entries a successful inject(l, r, v) leaves
\* exactly one entry containing [l, r), with value v, reaching from the left
\* end of the equal-valued entry that ended at l (or from l) to the right end
\* of the equal-valued entry that started at r (or to r); the absorbed entries
\* are gone and touching entries with another value are unchanged
C9_InjectMerges ==
  (op = "inject" /\ ret = TRUE /\ PairwiseDisjoint(pre)) =>
    \E L \in (IF LeftNeighbours(pre, argL, argV) = {} THEN {argL}
              ELSE LeftNeighbours(pre, argL, argV)) :
      LET R == IF RightNeighbours(pre, argR, argV) = {} THEN argR
               ELSE pre[argR].right
      IN
      /\ {a \in DOMAIN map_ : a <= argL /\ argR <= map_[a].right} = {L}
      /\ map_[L] = [right |-> R, value |-> argV]
      /\ \A a \in LeftNeighbours(pre, argL, argV) \cup
                  RightNeighbours(pre, argR, argV) :
           <<a, pre[a].right, pre[a].value>> \notin Entries(map_)
      /\ \A a \in DOMAIN pre :
           (pre[a].value # argV /\ (pre[a].right = argL \/ a = argR)) =>
             <<a, pre[a].right, pre[a].value>> \in Entries(map_)

\* C10: inject(l, r, v) over a map that covers some point of [l, r) returns
\* false and leaves the stored entries as they were
C10_InjectRejectsOverlap ==
  (op = "inject" /\ \E p \in Range(argL, argR) : Covered(pre, p)) =>
    (ret = FALSE /\ Entries(map_) = Entries(pre))

\* a rejected inject whose range is partly free and partly inside an entry
\* that it also touches with an equal value on the other side
C10_Witness ==
  /\ op = "inject"
  /\ ret = FALSE
  /\ \E p \in Range(argL, argR) : Covered(pre, p)
  /\ \E p \in Range(argL, argR) : ~ Covered(pre, p)
  /\ LeftNeighbours(pre, argL, argV) # {}
  /\ Entries(map_) = Entries(pre)

\* C11: erase(p) returns true and removes exactly the stored entry [a, b)
\* with a <= p < b, leaving the others and one entry fewer, when there is
\* such an entry; otherwise it returns false and leaves the entries alone
C11_ErasePoint ==
  op = "erase_point" =>
    IF Covered(pre, argL)
    THEN /\ ret = TRUE
         /\ \E a \in Containing(pre, argL) :
              Entries(map_) = Entries(pre) \ {<<a, pre[a].right, pre[a].value>>}
         /\ Cardinality(DOMAIN map_) = Cardinality(DOMAIN pre) - 1
    ELSE /\ ret = FALSE
         /\ Entries(map_) = Entries(pre)

\* C12: with r <= l, insert and inject return false, erase(l, r) returns,
\* and the stored entries are as they were
C12_InvalidRange ==
  (op \in {"insert", "inject", "erase_range"} /\ argR <= argL) =>
    /\ op \in {"insert", "inject"} => ret = FALSE
    /\ op = "erase_range" => ret = "void"
    /\ Entries(map_) = Entries(pre)

\* an erase(l, r) with r < l whose arguments lie inside one stored entry
C12_Witness ==
  /\ op = "erase_range"
  /\ argR < argL
  /\ \E a \in DOMAIN pre : a < argR /\ argL < pre[a].right
  /\ Entries(map_) = Entries(pre)

FusedWith(m, a, l, r) ==
  {x \in DOMAIN m : x <= l /\ r < m[x].right /\ m[x].right = a
                      /\ m[x].value = m[a].value}

C14_ScanProgress ==
  /\ op = "idle" =>
       \A l \in Points, r \in Points : erase_range(map_, l, r).terminated
  /\ (op = "erase_range" /\ argL < argR) =>
       /\ \A k \in 1 .. Len(trace) :
            ~ trace[k].stop => trace[k].to > trace[k].from
       /\ Len(trace) <=
            Cardinality({a \in DOMAIN pre : Intersects(pre, a, argL, argR)})

\* C15: a successful insert(l, r, v) adds the entry (l, r, v), makes the map
\* one entry larger and leaves every other entry as it was
C15_InsertNeverMerges ==
  (op = "insert" /\ ret = TRUE) =>
    /\ Entries(map_) = Entries(pre) \cup {<<argL, argR, argV>>}
    /\ Cardinality(DOMAIN map_) = Cardinality(DOMAIN pre) + 1

\* a successful insert that touches equal-valued entries on both sides
C15_Witness ==
  /\ op = "insert"
  /\ ret = TRUE
  /\ LeftNeighbours(pre, argL, argV) # {}
  /\ RightNeighbours(pre, argR, argV) # {}
  /\ <<argL, argR, argV>> \in Entries(map_)

\* C16: when inject(l, r, v) returns true, lookup(p) = v for every p in
\* [l, r) and lookup(p) is as before for every p outside [l, r)
C16_InjectCorrect ==
  (op = "inject" /\ ret = TRUE) =>
    /\ \A p \in Range(argL, argR) : lookup(map_, p) = argV
    /\ \A p \in Points \ Range(argL, argR) : lookup(map_, p) = lookup(pre, p)

\* C17: insert(l, r, v) and inject(l, r, v) applied to the same map accept
\* the same ranges
C17_SameAcceptance ==
  /\ op = "insert" => ret = inject(pre, argL, argR, argV).ret
  /\ op = "inject" => ret = insert(pre, argL, argR, argV).ret

\* no two stored entries touch with an equal value
Canonical(m) ==
  \A a \in DOMAIN m, b \in DOMAIN m :
    ~ (m[a].right = b /\ a # b /\ m[a].value = m[b].value)

\* C18: when insert is never called, no two stored intervals A, B have
\* A.right = B.left and an equal value
C18_Canonical == Canonical(map_)

\* an inject that fused the entries on both sides of [l, r) into one
C18_Witness ==
  /\ op = "inject"
  /\ ret = TRUE
  /\ LeftNeighbours(pre, argL, argV) # {}
  /\ RightNeighbours(pre, argR, argV) # {}
  /\ Cardinality(DOMAIN map_) = Cardinality(DOMAIN pre) - 1
  /\ Canonical(map_)
====
